---- MODULE Spec2Model ----
(***************************************************************************)
(* Play-money prediction-market bot (src/main.py): the ledger of users,   *)
(* markets and bets, the price-impact rule, place_bet, and the POST       *)
(* webhook handler that dispatches chat events.                           *)
(*                                                                         *)
(* Money and prices are Python floats in the source.  Every amount the    *)
(* program computes is a multiple of 0.001 (prices are seeded at          *)
(* multiples of 0.01, the impact is 0.001 * qty with qty an integer), so  *)
(* the model keeps them as integers counted in thousandths: the price     *)
(* 0.50 is 500 and the balance 1000.0 is 1000000.  This is exact          *)
(* arithmetic; binary rounding of the floats is not modelled.             *)
(***************************************************************************)
EXTENDS Integers, Sequences, FiniteSets, TLC

VARIABLES users, markets, bets, sent, resp, hs

vars == <<users, markets, bets, sent, resp, hs>>

----------------------------------------------------------------------------
(* Bounds of the model *)

\* fills added to the bets table after start-up
MaxBets == 1
\* button taps already recorded in a database file kept from an earlier run
ReplayTaps == 44

(* Program constants, in thousandths *)

StartBalance == 1000000
MaxImpact == 100
ImpactPerUnit == 1
PriceCap == 990
PriceFloor == 10
One == 1000
DefaultQty == 10

WaIds == {"u1", "u2"}
\* market ids a request may name: 1 and 2 are seeded, 3 does not exist
AskedIds == {1, 2, 3}
\* quantities the contract of place_bet is evaluated at
Qtys == {1, 10, 100, 150, 2000}
\* quantities place_bet is called with on its own; the button path passes DefaultQty
CallQtys == {2000}
SideInputs == {"YES", "NO", "Maybe"}
\* markets whose is_open flag is cleared during a run
ClosableIds == {1}

Min(a, b) == IF a < b THEN a ELSE b
Max(a, b) == IF a > b THEN a ELSE b

----------------------------------------------------------------------------
(* Outbound messages.  A message is recorded when send_whatsapp is called; *)
(* the call raises when the credentials are missing or the transport       *)
(* answers with a status >= 300 (ok = FALSE).                               *)

Msg(to, kind, market) == [to |-> to, kind |-> kind, market |-> market]

send_whatsapp(ctx, msg, ok) ==
    [ctx EXCEPT !.sent = Append(@, msg), !.exc = ~ok]

send_text(ctx, to, kind, ok) == send_whatsapp(ctx, Msg(to, kind, 0), ok)

send_yes_no_buttons(ctx, to, market_id, ok) ==
    send_whatsapp(ctx, Msg(to, "buttons", market_id), ok)

----------------------------------------------------------------------------
(* Market mechanics *)

\* variant: the impact is not capped at MaxImpact
price_impact_uncapped(qty) == ImpactPerUnit * qty

price_impact(qty) == Min(MaxImpact, ImpactPerUnit * qty)

\* variant: the raised price is not clamped at PriceCap
apply_price_impact_unclamped(m, side, qty) ==
    IF side = "YES"
    THEN LET y == m.yes_price + price_impact(qty)
         IN  [m EXCEPT !.yes_price = y, !.no_price = Max(PriceFloor, One - y)]
    ELSE LET n == m.no_price + price_impact(qty)
         IN  [m EXCEPT !.no_price = n, !.yes_price = Max(PriceFloor, One - n)]

\* variant: only the chosen side is moved, the other side keeps its quote
apply_price_impact_one_sided(m, side, qty) ==
    IF side = "YES"
    THEN [m EXCEPT !.yes_price = Min(PriceCap, @ + price_impact(qty))]
    ELSE [m EXCEPT !.no_price = Min(PriceCap, @ + price_impact(qty))]

apply_price_impact(m, side, qty) ==
    IF side = "YES"
    THEN LET y == Min(PriceCap, m.yes_price + price_impact(qty))
         IN  [m EXCEPT !.yes_price = y, !.no_price = Max(PriceFloor, One - y)]
    ELSE LET n == Min(PriceCap, m.no_price + price_impact(qty))
         IN  [m EXCEPT !.no_price = n, !.yes_price = Max(PriceFloor, One - n)]

Market(yes, no) == [is_open |-> TRUE, yes_price |-> yes, no_price |-> no]

ensure_seed_markets == (1 :> Market(500, 500)) @@ (2 :> Market(450, 550))

----------------------------------------------------------------------------
(* Ledger and betting *)

\* variant: the balance is set to the default on every call
get_or_create_user_reset(ctx, wa_id) ==
    [ctx EXCEPT !.users = (wa_id :> StartBalance) @@ @]

get_or_create_user(ctx, wa_id) ==
    IF wa_id \in DOMAIN ctx.users
    THEN ctx
    ELSE [ctx EXCEPT !.users = (wa_id :> StartBalance) @@ @]

\* str.upper on the side strings a request may carry
Upper(s) ==
    CASE s = "no" -> "NO"
      [] s = "yes" -> "YES"
      [] s = "Maybe" -> "MAYBE"
      [] OTHER -> s

quote(m, side) == IF side = "YES" THEN m.yes_price ELSE m.no_price

\* variant: the cost is the price of one unit, whatever the quantity
bet_cost_unit(qty, price) == price

bet_cost(qty, price) == qty * price

\* variant: the comparison is the wrong way round
insufficient_reversed(balance, cost) == cost < balance

\* variant: the balance is not checked
insufficient_off(balance, cost) == FALSE

insufficient(balance, cost) == balance < cost

Bet(wa_id, market_id, side, price, qty) ==
    [wa_id |-> wa_id, market_id |-> market_id, side |-> side,
     price |-> price, qty |-> qty]

\* variant: the price update runs first and the bet is booked at the new quote
fill_post_update(ctx, wa_id, market_id, side, price, qty) ==
    LET m == apply_price_impact(ctx.markets[market_id], side, qty) IN
    [ctx EXCEPT
        !.users[wa_id] = @ - bet_cost(qty, quote(m, side)),
        !.bets = Append(@, Bet(wa_id, market_id, side, quote(m, side), qty)),
        !.markets[market_id] = m]

\* u.balance -= cost; db.add(Bet(...)); apply_price_impact(m, side, qty); db.commit()
fill(ctx, wa_id, market_id, side, price, qty) ==
    [ctx EXCEPT
        !.users[wa_id] = @ - bet_cost(qty, price),
        !.bets = Append(@, Bet(wa_id, market_id, side, price, qty)),
        !.markets[market_id] = apply_price_impact(@, side, qty)]

\* variant: a closed market still takes bets
place_bet_closed_ignored(ctx, wa_id, market_id, side, qty, ok) ==
    LET c == get_or_create_user(ctx, wa_id) IN
    IF market_id \notin DOMAIN c.markets
    THEN send_text(c, wa_id, "bet_market_not_found", ok)
    ELSE IF Upper(side) \notin {"YES", "NO"}
    THEN send_text(c, wa_id, "invalid_side", ok)
    ELSE LET price == quote(c.markets[market_id], Upper(side)) IN
         IF insufficient(c.users[wa_id], bet_cost(qty, price))
         THEN send_text(c, wa_id, "insufficient_balance", ok)
         ELSE send_text(fill(c, wa_id, market_id, Upper(side), price, qty),
                        wa_id, "bet_placed", ok)

place_bet(ctx, wa_id, market_id, side, qty, ok) ==
    LET c == get_or_create_user(ctx, wa_id) IN
    IF market_id \notin DOMAIN c.markets
    THEN send_text(c, wa_id, "bet_market_not_found", ok)
    ELSE IF ~c.markets[market_id].is_open
    THEN send_text(c, wa_id, "market_closed", ok)
    ELSE IF Upper(side) \notin {"YES", "NO"}
    THEN send_text(c, wa_id, "invalid_side", ok)
    ELSE LET price == quote(c.markets[market_id], Upper(side)) IN
         IF insufficient(c.users[wa_id], bet_cost(qty, price))
         THEN send_text(c, wa_id, "insufficient_balance", ok)
         ELSE send_text(fill(c, wa_id, market_id, Upper(side), price, qty),
                        wa_id, "bet_placed", ok)

----------------------------------------------------------------------------
(* State *)

Ctx(u, m, b) == [users |-> u, markets |-> m, bets |-> b, sent |-> <<>>, exc |-> FALSE]

Now == Ctx(users, markets, bets)

----------------------------------------------------------------------------
(* Inbound webhook bodies.  A body is described by the shape the handler   *)
(* tests, in the order it tests it, then by the fields of its first        *)
(* message.                                                                 *)

Body(shape, from, type, text, itype, btn) ==
    [shape |-> shape, from |-> from, type |-> type, text |-> text,
     itype |-> itype, btn |-> btn]

\* bodies that carry no usable message
Shapes == {"not_json", "not_object", "no_entry", "no_changes", "no_messages", "no_from"}

\* msg["text"]["body"]: a string, JSON null, or the key is absent
RawTexts == {" Hi ", "markets", "BALANCE", "1", "3", "buy", "<null>", "<absent>"}

\* interactive.button_reply.id, or the button_reply key is absent
ButtonIds == {"BET|1|YES", "BET|1|NO", "BET|2|YES", "BET|2|NO", "BET|3|YES",
              "BET|1|no", "BET|1|Maybe", "BET|x|YES", "BUY|1|YES", "HELP",
              "<absent>"}

Bodies ==
    {Body(s, "", "", "", "", "") : s \in Shapes}
    \cup {Body("message", w, "text", t, "", "") : w \in WaIds, t \in RawTexts}
    \cup {Body("message", w, "interactive", "", "button_reply", b) :
              w \in WaIds, b \in ButtonIds}
    \cup {Body("message", w, "interactive", "", "list_reply", "") : w \in WaIds}
    \cup {Body("message", w, "image", "", "", "") : w \in WaIds}

\* (body or "").strip().lower() on the texts above
Normalize(t) ==
    CASE t = " Hi " -> "hi"
      [] t = "BALANCE" -> "balance"
      [] t = "<null>" -> ""
      [] OTHER -> t

IsDigit(t) == t \in {"1", "2", "3"}

\* int() on a string of digits; raises ValueError on anything else
IsInt(t) == t \in {"1", "2", "3"}
ToInt(t) == CASE t = "1" -> 1 [] t = "2" -> 2 [] t = "3" -> 3 [] OTHER -> 0

\* btn_id.split("|")
Split(b) ==
    CASE b = "BET|1|YES" -> <<"BET", "1", "YES">>
      [] b = "BET|1|NO" -> <<"BET", "1", "NO">>
      [] b = "BET|2|YES" -> <<"BET", "2", "YES">>
      [] b = "BET|2|NO" -> <<"BET", "2", "NO">>
      [] b = "BET|3|YES" -> <<"BET", "3", "YES">>
      [] b = "BET|1|no" -> <<"BET", "1", "no">>
      [] b = "BET|1|Maybe" -> <<"BET", "1", "Maybe">>
      [] b = "BET|x|YES" -> <<"BET", "x", "YES">>
      [] b = "BUY|1|YES" -> <<"BUY", "1", "YES">>
      [] OTHER -> <<b>>

----------------------------------------------------------------------------
(* The POST /webhook handler.  The result is the context after the call    *)
(* with the handler's outcome in resp: "ok_true" and "ok_false" are the    *)
(* two JSON acknowledgments, "http_error" is an exception that left the    *)
(* handler.                                                                 *)

Reply(ctx, r) == [users |-> ctx.users, markets |-> ctx.markets, bets |-> ctx.bets,
                  sent |-> ctx.sent, exc |-> ctx.exc, resp |-> r]

\* return {"ok": True} unless an exception was raised on the way
Ack(ctx) == Reply(ctx, IF ctx.exc THEN "ok_false" ELSE "ok_true")

read_json(ctx, body) ==
    IF body.shape = "not_json" THEN Reply(ctx, "http_error") ELSE Reply(ctx, "parsed")

\* variant: a market-id text buys YES at once instead of asking with buttons
dispatch_text_buys(ctx, wa_id, text, ok) ==
    IF text \in {"hi", "hello", "start"}
    THEN send_text(ctx, wa_id, "welcome", ok)
    ELSE IF text = "markets"
    THEN send_text(ctx, wa_id, "markets_list", ok)
    ELSE IF text = "balance"
    THEN send_text(ctx, wa_id, "balance", ok)
    ELSE IF IsDigit(text)
    THEN place_bet(ctx, wa_id, ToInt(text), "YES", DefaultQty, ok)
    ELSE send_text(ctx, wa_id, "help", ok)

dispatch_text(ctx, wa_id, text, ok) ==
    IF text \in {"hi", "hello", "start"}
    THEN send_text(ctx, wa_id, "welcome", ok)
    ELSE IF text = "markets"
    THEN send_text(ctx, wa_id, "markets_list", ok)
    ELSE IF text = "balance"
    THEN send_text(ctx, wa_id, "balance", ok)
    ELSE IF IsDigit(text)
    THEN IF ToInt(text) \notin DOMAIN ctx.markets
         THEN send_text(ctx, wa_id, "market_not_found", ok)
         ELSE send_yes_no_buttons(ctx, wa_id, ToInt(text), ok)
    ELSE send_text(ctx, wa_id, "help", ok)

handle_text(ctx, body, ok) ==
    IF body.type = "text"
    THEN IF body.text = "<absent>"
         THEN Reply(ctx, "ok_false")
         ELSE Ack(dispatch_text(ctx, body.from, Normalize(body.text), ok))
    ELSE Ack(dispatch_text(ctx, body.from, "", ok))

handle_message(ctx, body, ok) ==
    LET c == get_or_create_user(ctx, body.from) IN
    IF body.type = "interactive" /\ body.itype = "button_reply"
    THEN IF body.btn = "<absent>"
         THEN Reply(c, "ok_false")
         ELSE LET parts == Split(body.btn) IN
              IF Len(parts) = 3 /\ parts[1] = "BET"
              THEN IF ~IsInt(parts[2])
                   THEN Reply(c, "ok_false")
                   ELSE Ack(place_bet(c, body.from, ToInt(parts[2]), parts[3],
                                      DefaultQty, ok))
              ELSE handle_text(c, body, ok)
    ELSE handle_text(c, body, ok)

inbound(ctx, body, ok) ==
    IF read_json(ctx, body).resp = "http_error"
    THEN read_json(ctx, body)
    ELSE IF body.shape \in {"not_object", "no_entry", "no_changes"}
    THEN Reply(ctx, "ok_false")
    ELSE IF body.shape \in {"no_messages", "no_from"}
    THEN Reply(ctx, "ok_true")
    ELSE handle_message(ctx, body, ok)

----------------------------------------------------------------------------
(* Start-up.  The database is a file (DB_URL) that outlives the process,   *)
(* and ensure_seed_markets adds the two seed markets only to an empty       *)
(* markets table.  The process therefore starts either on a fresh file     *)
(* with the seeds, or on the file an earlier run left behind; the model     *)
(* takes for the latter the file after ReplayTaps taps of the NO button     *)
(* of market 2 by user u1.                                                  *)

NoUsers == [w \in {} |-> 0]

NoTap == Body("message", "u1", "interactive", "", "button_reply", "BET|2|NO")

RECURSIVE Replay(_, _)
Replay(ctx, n) ==
    IF n = 0
    THEN ctx
    ELSE LET r == inbound(Ctx(ctx.users, ctx.markets, ctx.bets), NoTap, TRUE) IN
         IF r.resp = "ok_true" THEN Replay(r, n - 1) ELSE ctx

Fresh == Ctx(NoUsers, ensure_seed_markets, <<>>)

StartFiles == {Fresh, Replay(Fresh, ReplayTaps)}

\* a handler invocation that is not running (used by the concurrent behaviour)
Idle == [pc |-> "idle"]

Handlers == {1, 2}

Init ==
    \E db \in StartFiles :
        /\ users = db.users
        /\ markets = db.markets
        /\ bets = db.bets
        /\ sent = <<>>
        /\ resp = "none"
        /\ hs = [h \in Handlers |-> Idle]

\* rows of the bets table the process found at start-up
StartRows(n) == IF n >= ReplayTaps THEN ReplayTaps ELSE 0

WithinBounds(b) == Len(b) <= StartRows(Len(b)) + MaxBets

----------------------------------------------------------------------------
(* Sequential behaviour: one operation at a time, each run to completion.  *)

Inbound(body) ==
    \E ok \in BOOLEAN : \E r \in {inbound(Now, body, ok)} :
        /\ WithinBounds(r.bets)
        /\ users' = r.users
        /\ markets' = r.markets
        /\ bets' = r.bets
        /\ sent' = r.sent
        /\ resp' = r.resp
        /\ UNCHANGED hs

\* place_bet called on its own, with any quantity
PlaceBetCall(wa_id, market_id, side, qty) ==
    \E ok \in BOOLEAN : \E r \in {place_bet(Now, wa_id, market_id, side, qty, ok)} :
        /\ WithinBounds(r.bets)
        /\ users' = r.users
        /\ markets' = r.markets
        /\ bets' = r.bets
        /\ sent' = r.sent
        /\ resp' = IF r.exc THEN "raised" ELSE "returned"
        /\ UNCHANGED hs

\* Market.is_open goes from true to false (no code of src/ writes it)
CloseMarket(market_id) ==
    /\ markets[market_id].is_open
    /\ markets' = [markets EXCEPT ![market_id].is_open = FALSE]
    /\ sent' = <<>>
    /\ resp' = "none"
    /\ UNCHANGED <<users, bets, hs>>

Next ==
    \/ \E body \in Bodies : Inbound(body)
    \/ \E w \in WaIds, m \in AskedIds, s \in SideInputs, q \in CallQtys :
           PlaceBetCall(w, m, s, q)
    \/ \E m \in ClosableIds : CloseMarket(m)

Spec == Init /\ [][Next]_vars

----------------------------------------------------------------------------
(* Concurrent behaviour.  Nothing in the source locks a row or a market:   *)
(* every handler invocation opens its own SessionLocal, reads the user and *)
(* the market into objects of that session, computes on those objects and   *)
(* writes the computed values back at db.commit().  When two invocations    *)
(* run at once (two worker processes or threads on one database; inside    *)
(* one event loop the handler has no await between its reads and its        *)
(* commit) their database calls interleave.  A handler here is one          *)
(* invocation that carries a button tap BET|<market>|<side>; its steps are  *)
(* its calls to the database and to the transport.                          *)

\* fills committed by concurrent handlers after start-up
MaxRaceBets == 2

RaceButtons == {"BET|1|YES", "BET|1|NO", "BET|3|YES"}

WithinRaceBounds(b) == Len(b) <= StartRows(Len(b)) + MaxRaceBets

Local(h) == hs[h]

\* msg = messages[0]; wa_id = msg.get("from"); btn_id.split("|"); int(parts[1])
Receive(h, wa_id, btn) ==
    /\ Local(h).pc = "idle"
    /\ hs' = [hs EXCEPT ![h] = [pc |-> "get_user", wa_id |-> wa_id,
                                market_id |-> ToInt(Split(btn)[2]),
                                side |-> Split(btn)[3], balance |-> 0,
                                yes_price |-> 0, no_price |-> 0, price |-> 0,
                                msg |-> "", resp |-> ""]]
    /\ UNCHANGED <<users, markets, bets, sent, resp>>

\* u = db.get(User, wa_id)
GetUser(h) ==
    /\ Local(h).pc = "get_user"
    /\ hs' = [hs EXCEPT ![h] =
                IF Local(h).wa_id \in DOMAIN users
                THEN [@ EXCEPT !.pc = "get_market", !.balance = users[Local(h).wa_id]]
                ELSE [@ EXCEPT !.pc = "create_user"]]
    /\ UNCHANGED <<users, markets, bets, sent, resp>>

\* db.add(u); db.commit(): the INSERT fails on the primary key when another
\* invocation has created the row in the meantime
CreateUser(h) ==
    /\ Local(h).pc = "create_user"
    /\ IF Local(h).wa_id \in DOMAIN users
       THEN /\ hs' = [hs EXCEPT ![h] = [@ EXCEPT !.pc = "done", !.resp = "ok_false"]]
            /\ UNCHANGED users
       ELSE /\ users' = get_or_create_user(Now, Local(h).wa_id).users
            /\ hs' = [hs EXCEPT ![h] = [@ EXCEPT !.pc = "refresh_user"]]
    /\ UNCHANGED <<markets, bets, sent, resp>>

\* db.refresh(u)
RefreshUser(h) ==
    /\ Local(h).pc = "refresh_user"
    /\ hs' = [hs EXCEPT ![h] = [@ EXCEPT !.pc = "get_market",
                                         !.balance = users[Local(h).wa_id]]]
    /\ UNCHANGED <<users, markets, bets, sent, resp>>

Reject(h, kind) == [hs EXCEPT ![h] = [@ EXCEPT !.pc = "send", !.msg = kind]]

\* m = db.get(Market, market_id) and the checks place_bet makes on what it read
GetMarket(h) ==
    /\ Local(h).pc = "get_market"
    /\ hs' = IF Local(h).market_id \notin DOMAIN markets
             THEN Reject(h, "bet_market_not_found")
             ELSE IF ~markets[Local(h).market_id].is_open
             THEN Reject(h, "market_closed")
             ELSE IF Upper(Local(h).side) \notin {"YES", "NO"}
             THEN Reject(h, "invalid_side")
             ELSE LET m == markets[Local(h).market_id]
                      price == quote(m, Upper(Local(h).side))
                  IN  IF insufficient(Local(h).balance, bet_cost(DefaultQty, price))
                      THEN Reject(h, "insufficient_balance")
                      ELSE [hs EXCEPT ![h] = [@ EXCEPT !.pc = "commit",
                                                       !.side = Upper(@),
                                                       !.yes_price = m.yes_price,
                                                       !.no_price = m.no_price,
                                                       !.price = price]]
    /\ UNCHANGED <<users, markets, bets, sent, resp>>

\* variant: the prices are computed on the stored row, not on the session's copy
flushed_fresh(l, stored) ==
    [balance |-> l.balance - bet_cost(DefaultQty, l.price),
     market |-> apply_price_impact(stored, l.side, DefaultQty),
     bet |-> Bet(l.wa_id, l.market_id, l.side, l.price, DefaultQty)]

\* the values db.commit() writes, computed on the objects of the handler's session
flushed(l, stored) ==
    LET m == apply_price_impact(Market(l.yes_price, l.no_price), l.side, DefaultQty)
    IN  [balance |-> l.balance - bet_cost(DefaultQty, l.price),
         market |-> [stored EXCEPT !.yes_price = m.yes_price, !.no_price = m.no_price],
         bet |-> Bet(l.wa_id, l.market_id, l.side, l.price, DefaultQty)]

\* variant: the confirmation is due while the transaction has not been committed
Commit_deferred(h) ==
    /\ Local(h).pc = "commit"
    /\ hs' = [hs EXCEPT ![h] = [@ EXCEPT !.pc = "send", !.msg = "bet_placed"]]
    /\ UNCHANGED <<users, markets, bets, sent, resp>>

\* u.balance -= cost; db.add(b); apply_price_impact(m, side, qty); db.commit()
Commit(h) ==
    /\ Local(h).pc = "commit"
    /\ WithinRaceBounds(Append(bets, 0))
    /\ LET w == flushed(Local(h), markets[Local(h).market_id]) IN
        /\ users' = [users EXCEPT ![Local(h).wa_id] = w.balance]
        /\ markets' = [markets EXCEPT ![Local(h).market_id] = w.market]
        /\ bets' = Append(bets, w.bet)
    /\ hs' = [hs EXCEPT ![h] = [@ EXCEPT !.pc = "send", !.msg = "bet_placed"]]
    /\ UNCHANGED <<sent, resp>>

\* send_text(...), then return {"ok": True}, or the except branch when it raises
Send(h) ==
    /\ Local(h).pc = "send"
    /\ \E ok \in BOOLEAN :
        hs' = [hs EXCEPT ![h] = [@ EXCEPT !.pc = "done",
                                          !.resp = IF ok THEN "ok_true" ELSE "ok_false"]]
    /\ UNCHANGED <<users, markets, bets, sent, resp>>

\* the invocation is over
Return(h) ==
    /\ Local(h).pc = "done"
    /\ hs' = [hs EXCEPT ![h] = Idle]
    /\ UNCHANGED <<users, markets, bets, sent, resp>>

NextConc ==
    \/ \E h \in Handlers, w \in WaIds, b \in RaceButtons : Receive(h, w, b)
    \/ \E h \in Handlers : GetUser(h)
    \/ \E h \in Handlers : CreateUser(h)
    \/ \E h \in Handlers : RefreshUser(h)
    \/ \E h \in Handlers : GetMarket(h)
    \/ \E h \in Handlers : Commit(h)
    \/ \E h \in Handlers : Send(h)
    \/ \E h \in Handlers : Return(h)

SpecConc == Init /\ [][NextConc]_vars

----------------------------------------------------------------------------
(* Properties.  A property of place_bet or get_or_create_user is stated on *)
(* the call made in the current state: in every reachable state, for every *)
(* argument, the result of the call relates to that state as the claim     *)
(* says.  The steps of Spec are exactly such calls.                         *)

\* the balance a call finds once the user is resolved (a new user gets the default)
BalanceOf(w) == IF w \in DOMAIN users THEN users[w] ELSE StartBalance

QuoteNow(m, s) == IF s = "YES" THEN markets[m].yes_price ELSE markets[m].no_price

IsOpenMarket(m) == m \in DOMAIN markets /\ markets[m].is_open

OthersKept(r, w) == \A v \in DOMAIN users \ {w} : r.users[v] = users[v]

LastBet == bets[Len(bets)]

\* the operation just completed sent exactly this one message
Sent(kind) == Len(sent) = 1 /\ sent[1].kind = kind

(* C1: a bet on an open market, side YES or NO, whose cost qty * quote is at *)
(* most the balance, lowers the balance by exactly qty * the quote read     *)
(* before the price update and adds exactly one Bet row with that quote as   *)
(* price and the call's user, market, side and qty.                          *)
C1_FillDebitsCost ==
    \A w \in WaIds, m \in AskedIds, s \in {"YES", "NO"}, q \in Qtys :
        (IsOpenMarket(m) /\ q * QuoteNow(m, s) <= BalanceOf(w)) =>
            LET r == place_bet(Now, w, m, s, q, TRUE) IN
            /\ r.users[w] = BalanceOf(w) - q * QuoteNow(m, s)
            /\ OthersKept(r, w)
            /\ Len(r.bets) = Len(bets) + 1
            /\ SubSeq(r.bets, 1, Len(bets)) = bets
            /\ r.bets[Len(r.bets)] = [wa_id |-> w, market_id |-> m, side |-> s,
                                      price |-> QuoteNow(m, s), qty |-> q]

\* a call that cost the whole balance was filled: 2000 units at 0.50
C1_Witness ==
    /\ Sent("bet_placed")
    /\ resp = "returned"
    /\ LastBet.qty * LastBet.price = StartBalance
    /\ users[LastBet.wa_id] = 0

(* C2: a bet on an open market, side YES or NO, whose cost exceeds the       *)
(* balance changes neither the balance, nor any price, nor the Bet rows,     *)
(* and sends the insufficient-balance message to the user.                   *)
C2_InsufficientChangesNothing ==
    \A w \in WaIds, m \in AskedIds, s \in {"YES", "NO"}, q \in Qtys, ok \in BOOLEAN :
        (IsOpenMarket(m) /\ q * QuoteNow(m, s) > BalanceOf(w)) =>
            LET r == place_bet(Now, w, m, s, q, ok) IN
            /\ r.users[w] = BalanceOf(w)
            /\ OthersKept(r, w)
            /\ r.markets = markets
            /\ r.bets = bets
            /\ r.sent = <<Msg(w, "insufficient_balance", 0)>>

\* a user who spent the balance taps a button and is refused
C2_Witness ==
    /\ Sent("insufficient_balance")
    /\ resp = "ok_true"
    /\ users[sent[1].to] < DefaultQty * PriceFloor

\* the reason place_bet rejects a call before it looks at the balance
RejectKind(m, s) ==
    IF m \notin DOMAIN markets THEN "bet_market_not_found"
    ELSE IF ~markets[m].is_open THEN "market_closed"
    ELSE IF s \notin {"YES", "NO", "yes", "no"} THEN "invalid_side"
    ELSE "none"

AllSides == SideInputs \cup {"no"}

(* C3, as claimed: a call rejected for an unknown market, a closed market or *)
(* an invalid side leaves users, markets and bets identical and sends        *)
(* exactly one message.                                                      *)
C3_RejectChangesNothing ==
    [][\A w \in WaIds, m \in AskedIds, s \in SideInputs, q \in CallQtys :
          (PlaceBetCall(w, m, s, q) /\ RejectKind(m, s) # "none") =>
              /\ users' = users
              /\ markets' = markets
              /\ bets' = bets
              /\ Len(sent') = 1]_vars

(* C3, amended: such a call changes no market, no Bet row and no existing    *)
(* user; the one change it can make is to create the caller's user row with  *)
(* the default balance when the caller had none; and it sends exactly one    *)
(* message, which names the reason.                                          *)
C3_RejectKeepsLedger ==
    \A w \in WaIds, m \in AskedIds, s \in AllSides, q \in Qtys, ok \in BOOLEAN :
        RejectKind(m, s) # "none" =>
            LET r == place_bet(Now, w, m, s, q, ok) IN
            /\ r.markets = markets
            /\ r.bets = bets
            /\ DOMAIN r.users = DOMAIN users \cup {w}
            /\ \A v \in DOMAIN users : r.users[v] = users[v]
            /\ r.users[w] = BalanceOf(w)
            /\ r.sent = <<Msg(w, RejectKind(m, s), 0)>>

\* a call by a sender without a row was rejected and left the new row behind
C3_Witness ==
    /\ resp = "returned"
    /\ Len(sent) = 1
    /\ sent[1].kind \in {"bet_market_not_found", "market_closed", "invalid_side"}
    /\ DOMAIN users = {sent[1].to}
    /\ users[sent[1].to] = StartBalance
    /\ bets = <<>>

(* C4: after a fill the chosen side is quoted at                             *)
(* min(0.99, old + min(0.10, 0.001 * qty)), which is above the old quote     *)
(* unless it is clamped at 0.99, and the other side at                       *)
(* max(0.01, 1 - the new quote of the chosen side).                          *)
C4_PostFillQuotes ==
    \A w \in WaIds, m \in AskedIds, s \in {"YES", "NO"}, q \in Qtys :
        (IsOpenMarket(m) /\ q * QuoteNow(m, s) <= BalanceOf(w)) =>
            LET r == place_bet(Now, w, m, s, q, TRUE)
                old == QuoteNow(m, s)
                step == IF q < 100 THEN q ELSE 100
                new == IF old + step < 990 THEN old + step ELSE 990
                rest == IF 1000 - new > 10 THEN 1000 - new ELSE 10
                after == r.markets[m]
            IN  /\ (IF s = "YES" THEN after.yes_price ELSE after.no_price) = new
                /\ (IF s = "YES" THEN after.no_price ELSE after.yes_price) = rest
                /\ new > old \/ new = 990
                /\ after.is_open = markets[m].is_open
                /\ \A k \in DOMAIN markets \ {m} : r.markets[k] = markets[k]

\* a fill of more than 100 units moved the quote by the capped impact 0.10
C4_Witness ==
    /\ Sent("bet_placed")
    /\ LastBet.qty > MaxImpact
    /\ (IF LastBet.side = "YES" THEN markets[LastBet.market_id].yes_price
                                 ELSE markets[LastBet.market_id].no_price)
           = LastBet.price + MaxImpact

(* C5: every market's yes_price and no_price lie in [0.01, 0.99] in every    *)
(* reachable state.                                                          *)
C5_PricesInRange ==
    \A m \in DOMAIN markets :
        /\ markets[m].yes_price >= 10 /\ markets[m].yes_price <= 990
        /\ markets[m].no_price >= 10 /\ markets[m].no_price <= 990

\* a NO bet was filled at 0.99 and the quote stayed clamped at 0.99 / 0.01
C5_Witness ==
    /\ Sent("bet_placed")
    /\ LastBet.side = "NO"
    /\ LastBet.price = 990
    /\ markets[LastBet.market_id].no_price = 990
    /\ markets[LastBet.market_id].yes_price = 10

(* C6: every user's balance is non-negative in every reachable state.        *)
C6_BalanceNonNegative == \A w \in DOMAIN users : users[w] >= 0

\* a call was refused whose cost was above the balance the user still holds
C6_Witness ==
    /\ Sent("insufficient_balance")
    /\ resp = "returned"
    /\ users[sent[1].to] >= 0
    /\ \E m \in DOMAIN markets, q \in CallQtys :
           q * markets[m].yes_price > users[sent[1].to]

(* C7: get_or_create_user creates a missing user with balance 1000.0; for a  *)
(* user that exists, whatever bets were filled before, it returns the row    *)
(* with its current balance, changes nothing, and a repeated call changes    *)
(* nothing more.                                                             *)
C7_GetOrCreateIdempotent ==
    \A w \in WaIds :
        LET once == get_or_create_user(Now, w)
            twice == get_or_create_user(once, w)
        IN  /\ DOMAIN once.users = DOMAIN users \cup {w}
            /\ \A v \in DOMAIN users : once.users[v] = users[v]
            /\ w \notin DOMAIN users => once.users[w] = StartBalance
            /\ once.markets = markets /\ once.bets = bets
            /\ twice = once

\* a user who has paid for a bet asked for the balance afterwards
C7_Witness ==
    /\ Sent("balance")
    /\ resp = "ok_true"
    /\ users[sent[1].to] < StartBalance
    /\ LastBet.wa_id = sent[1].to

(* C8, as claimed: whatever the inbound event, the POST handler ends with    *)
(* one of the acknowledgments {"ok": true} and {"ok": false, ...}; no error  *)
(* leaves it.                                                                *)
C8_NoErrorEscapes ==
    [][\A b \in Bodies : Inbound(b) => resp' \in {"ok_true", "ok_false"}]_vars

\* bodies in which the handler finds no message list
NoMessageList == {b \in Bodies : b.shape \in {"no_entry", "no_changes", "no_messages"}}

(* C9, as claimed: a body without a message list, a body without entry      *)
(* included, is acknowledged with {"ok": true}, sends nothing and changes    *)
(* no state.                                                                 *)
C9_NoMessagesIsNoOp ==
    [][\A b \in NoMessageList :
          Inbound(b) => /\ resp' = "ok_true"
                        /\ sent' = <<>>
                        /\ UNCHANGED <<users, markets, bets>>]_vars

\* handler h has committed a fill and not yet returned
Committed(h) == hs[h].pc \in {"send", "done"} /\ hs[h].msg = "bet_placed"

\* two invocations that filled the same side of the same market at the same quote
SameQuoteFills(h1, h2) ==
    /\ h1 # h2
    /\ Committed(h1) /\ Committed(h2)
    /\ hs[h1].market_id = hs[h2].market_id
    /\ hs[h1].side = hs[h2].side
    /\ hs[h1].price = hs[h2].price

(* C10: when two concurrent invocations have both read the same pre-update  *)
(* quote of a market and both committed their fill, the stored quote is the  *)
(* one after a single fill, and when they also read the same balance of the  *)
(* same user the stored balance carries a single debit.                      *)
C10_RaceLosesUpdate ==
    \A h1, h2 \in Handlers :
        SameQuoteFills(h1, h2) =>
            /\ QuoteNow(hs[h1].market_id, hs[h1].side)
                   = (IF hs[h1].price + 10 < 990 THEN hs[h1].price + 10 ELSE 990)
            /\ (hs[h1].wa_id = hs[h2].wa_id /\ hs[h1].balance = hs[h2].balance)
                   => users[hs[h1].wa_id] = hs[h1].balance - 10 * hs[h1].price

\* two Bet rows of one user at one quote, one impact on the price, one debit
C10_Witness ==
    \E h1, h2 \in Handlers :
        /\ SameQuoteFills(h1, h2)
        /\ hs[h1].wa_id = hs[h2].wa_id
        /\ hs[h1].balance = hs[h2].balance
        /\ hs[h1].price + 20 <= 990
        /\ Len(bets) >= 2
        /\ bets[Len(bets)] = bets[Len(bets) - 1]
        /\ LastBet = Bet(hs[h1].wa_id, hs[h1].market_id, hs[h1].side, hs[h1].price, 10)
        /\ QuoteNow(LastBet.market_id, LastBet.side) = LastBet.price + 10
        /\ users[LastBet.wa_id] = hs[h1].balance - 10 * LastBet.price

\* bodies whose first message names its sender
SenderBodies == {b \in Bodies : b.shape = "message"}

(* C11, as claimed: every inbound event that carries a message with a sender *)
(* id makes the handler send exactly one message, and that one to the        *)
(* sender, whatever the path taken.                                          *)
C11_ExactlyOneResponse ==
    [][\A b \in SenderBodies :
          Inbound(b) => /\ Len(sent') = 1
                        /\ sent'[1].to = b.from]_vars

(* C13, as claimed: a button prompt is on record only for a market that     *)
(* exists and whose is_open is true.                                         *)
C13_ButtonsOnlyForOpenMarket ==
    \A i \in DOMAIN sent :
        sent[i].kind = "buttons" => IsOpenMarket(sent[i].market)

\* the Bet row handler h adds when its fill commits
HandlerBet(h) == Bet(hs[h].wa_id, hs[h].market_id, hs[h].side, hs[h].price, DefaultQty)

\* rows of the bets table equal to b
Rows(b) == {i \in DOMAIN bets : bets[i] = b}

(* C12: whenever an invocation is about to send, or has sent, the           *)
(* confirmation of a fill, that fill is already in the database: the bets   *)
(* table holds one row of that fill for every such invocation.              *)
C12_CommitBeforeConfirmation ==
    \A h \in Handlers :
        Committed(h) =>
            Cardinality(Rows(HandlerBet(h)))
                >= Cardinality({g \in Handlers :
                                    Committed(g) /\ HandlerBet(g) = HandlerBet(h)})

\* a confirmation went out for a fill whose row and debit are stored
C12_Witness ==
    \E h \in Handlers :
        /\ hs[h].pc = "done"
        /\ hs[h].msg = "bet_placed"
        /\ hs[h].resp = "ok_true"
        /\ LastBet = HandlerBet(h)
        /\ users[hs[h].wa_id] = hs[h].balance - bet_cost(DefaultQty, hs[h].price)
        /\ \A g \in Handlers \ {h} : hs[g].pc = "idle"

\* messages that do not carry a BET button tap: texts and other message types
PlainBodies ==
    {b \in SenderBodies : b.type # "interactive" \/ b.itype # "button_reply"}

\* the results of every handler call and every place_bet call made in this state
Calls ==
    {inbound(Now, b, ok) : b \in Bodies, ok \in BOOLEAN}
    \cup {Reply(place_bet(Now, w, m, s, q, ok), "returned") :
              w \in WaIds, m \in AskedIds, s \in SideInputs, q \in CallQtys,
              ok \in BOOLEAN}

\* the call with result r changed a balance, a price or the bets table
LedgerChanged(r) ==
    \/ r.bets # bets
    \/ \E v \in DOMAIN users : r.users[v] # users[v]
    \/ \E m \in DOMAIN markets :
           \/ r.markets[m].yes_price # markets[m].yes_price
           \/ r.markets[m].no_price # markets[m].no_price

(* C14: handling a greeting, markets, balance, a market-id text or an        *)
(* unrecognized message changes no existing user's balance, no market and    *)
(* no Bet row, the one change being the creation of the sender's row with    *)
(* the default balance; every call that changes a balance, a price or the    *)
(* bets table is a fill that adds one Bet row and sends the confirmation;    *)
(* and no call removes a user or a market.                                   *)
C14_OnlyFillsMutate ==
    /\ \A b \in PlainBodies, ok \in BOOLEAN :
           LET r == inbound(Now, b, ok) IN
           /\ r.markets = markets
           /\ r.bets = bets
           /\ DOMAIN r.users = DOMAIN users \cup {b.from}
           /\ \A v \in DOMAIN users : r.users[v] = users[v]
           /\ r.users[b.from] = BalanceOf(b.from)
    /\ \A r \in Calls :
           /\ DOMAIN users \subseteq DOMAIN r.users
           /\ DOMAIN r.markets = DOMAIN markets
           /\ \A m \in DOMAIN markets : r.markets[m].is_open = markets[m].is_open
           /\ LedgerChanged(r) =>
                  /\ Len(r.bets) = Len(bets) + 1
                  /\ Len(r.sent) = 1
                  /\ r.sent[1].kind = "bet_placed"

\* a new sender asked for the markets after another user's bet was filled
C14_Witness ==
    /\ Sent("markets_list")
    /\ resp = "ok_true"
    /\ users[sent[1].to] = StartBalance
    /\ bets # <<>>
    /\ LastBet.wa_id # sent[1].to
    /\ users[LastBet.wa_id] < StartBalance

\* qty * price summed over the first n Bet rows that belong to user w
RECURSIVE Staked(_, _)
Staked(w, n) ==
    IF n = 0
    THEN 0
    ELSE Staked(w, n - 1)
         + (IF bets[n].wa_id = w THEN bets[n].qty * bets[n].price ELSE 0)

(* C15: when operations run one at a time, in every reachable state every    *)
(* user's balance plus the sum of qty * price over the user's Bet rows is    *)
(* the starting balance 1000.0.                                              *)
C15_LedgerConserved ==
    \A w \in DOMAIN users : users[w] + Staked(w, Len(bets)) = StartBalance

\* a user holds bets bought at different prices, the last one just filled
C15_Witness ==
    /\ Sent("bet_placed")
    /\ resp = "ok_true"
    /\ Len(bets) >= 2
    /\ bets[Len(bets) - 1].wa_id = LastBet.wa_id
    /\ bets[Len(bets) - 1].price # LastBet.price
    /\ users[LastBet.wa_id] > 0
    /\ Staked(LastBet.wa_id, Len(bets)) = StartBalance - users[LastBet.wa_id]

\* prices in [0.01, 0.99] a market row may hold, not only pairs that sum to 1
PriceGrid == {10, 11, 450, 500, 900, 989, 990}

\* quantities from 0 on, below, at and above the cap of the impact
FillQtys == Qtys \cup {0}

SumsToOne(m) == m.yes_price + m.no_price = One

(* C16: for a market whose two prices lie in [0.01, 0.99], whatever their    *)
(* sum, after a fill of any qty >= 0 on either side the two quotes sum to    *)
(* exactly 1, also when the chosen side is clamped at 0.99; and in every     *)
(* reachable state every market's yes_price + no_price is 1.                 *)
C16_QuotesSumToOne ==
    /\ \A y \in PriceGrid, n \in PriceGrid, s \in {"YES", "NO"}, q \in FillQtys :
           SumsToOne(apply_price_impact(Market(y, n), s, q))
    /\ \A m \in DOMAIN markets :
           /\ SumsToOne(markets[m])
           /\ \A s \in {"YES", "NO"}, q \in FillQtys :
                  SumsToOne(apply_price_impact(markets[m], s, q))

\* a button tap was filled and moved its side by 0.01, the other side by -0.01
C16_Witness ==
    /\ Sent("bet_placed")
    /\ resp = "ok_true"
    /\ LastBet.qty = DefaultQty
    /\ QuoteNow(LastBet.market_id, LastBet.side) = LastBet.price + price_impact(DefaultQty)
    /\ QuoteNow(LastBet.market_id, IF LastBet.side = "YES" THEN "NO" ELSE "YES")
           = One - LastBet.price - price_impact(DefaultQty)
    /\ SumsToOne(markets[LastBet.market_id])

====
